---- MODULE Spec2Model ----
(***************************************************************************)
(* Unary / update / binary expression parser of ecmascript/parser          *)
(* (src/ecmascript/parser/src/parser/expr/ops.rs) as an explicit stack     *)
(* machine: one frame per active call of parse_bin_expr,                   *)
(* parse_bin_op_recursively, parse_unary_expr and parse_await_expr, one    *)
(* action per straight-line segment of each function.  The token stream    *)
(* is lexed on demand: every bump! draws the next token.                   *)
(***************************************************************************)
EXTENDS Integers, Sequences, FiniteSets, TLC

VARIABLES ctx, cur, consumed, stack, ret, status, err

vars == <<ctx, cur, consumed, stack, ret, status, err>>

(***************************************************************************)
(* Bounds of the model.                                                    *)
(***************************************************************************)
\* Number of tokens the lexer yields before it reports end of input.
MaxTokens == 5

\* The same for a source text of operands, `+` and `**` only.
MaxChainTokens == 7

(***************************************************************************)
(* Tokens.  A token is its kind and whether a line terminator precedes it. *)
(* The i-th token (counting from 0) occupies [2i, 2i+1): one position of   *)
(* text, one position of white space between tokens.                       *)
(***************************************************************************)
EOF == [kind |-> "EOF", nl |-> FALSE]

Tok(k) == [kind |-> k, nl |-> FALSE]

TokNl(k) == [kind |-> k, nl |-> TRUE]

\* BinOp(..) tokens of the lexer (`in` and `instanceof` are keywords).
BinOpTokens ==
    {"+", "-", "*", "/", "%", "**", "<<", ">>", ">>>", "&", "|", "^", "&&", "||",
     "??", "==", "!=", "===", "!==", "<", "<=", ">", ">="}

\* Tokens that parse_unary_expr takes as a unary operator.
UnaryOpTokens == {"delete", "void", "typeof", "+", "-", "~", "!"}

UpdateTokens == {"++", "--"}

\* Source text that parse_lhs_expr turns into one left-hand-side expression;
\* each is lexed here as one token.
PrimaryTokens ==
    {"x", "eval", "5", "obj.prop", "f()", "(-2)", "(a + b)", "(x)", "() => 1"}

\* The source texts the lexer is run on: every sequence of at most MaxTokens
\* tokens over one of these vocabularies.
Lexicons ==
    {{Tok("x"), Tok("+"), Tok("-"), Tok("*"), Tok("**"), Tok("in"), Tok("instanceof"),
      Tok("||")},
     {Tok("x"), Tok("eval"), Tok("5"), Tok("obj.prop"), Tok("f()"), Tok("(a + b)"),
      Tok("(x)"), Tok("++"), Tok("--")},
     {Tok("x"), Tok("5"), Tok("++"), TokNl("++"), TokNl("--"), Tok("-")},
     {Tok("x"), Tok("(-2)"), Tok("() => 1"), Tok("!"), Tok("typeof"), Tok("await"),
      Tok("*"), Tok("**")}}

Range(toks) == {toks[i] : i \in 1..Len(toks)}

\* The vocabulary of the longer chains.
ChainLexicon == {Tok("x"), Tok("+"), Tok("**")}

\* The tokens that may follow the tokens `done`.
NextTokens(done) ==
    {EOF}
    \cup (IF Len(done) < MaxTokens
          THEN UNION {L \in Lexicons : Range(done) \subseteq L}
          ELSE {})
    \cup (IF Len(done) < MaxChainTokens /\ Range(done) \subseteq ChainLexicon
          THEN ChainLexicon
          ELSE {})

Contexts == [include_in_expr : BOOLEAN, in_async : BOOLEAN, strict : BOOLEAN]

(***************************************************************************)
(* Positions and spans.                                                    *)
(***************************************************************************)
Span(lo, hi) == [lo |-> lo, hi |-> hi]

\* cur_pos!(): start of the current token, the last position at end of input.
CurPos(tok, done) ==
    IF tok = EOF
    THEN (IF done = <<>> THEN 0 ELSE 2 * Len(done) - 1)
    ELSE 2 * Len(done)

\* last_pos!(): end of the last token consumed.
LastPos(done) == IF done = <<>> THEN 0 ELSE 2 * Len(done) - 1

\* span of the current token
CurSpan(tok, done) ==
    IF tok = EOF
    THEN Span(LastPos(done), LastPos(done))
    ELSE Span(2 * Len(done), 2 * Len(done) + 1)

\* span!(start)
SpanFrom(start, done) == Span(start, LastPos(done))

\* The span of a postfix update: `let start = cur_pos!()` is taken at the
\* operator token, then the operator is bumped and the span is span!(start).
PostfixUpdateSpan(tok, done) == SpanFrom(CurPos(tok, done), Append(done, tok))

(***************************************************************************)
(* Expression nodes.                                                       *)
(***************************************************************************)
None == [kind |-> "None"]

BinNode(op, left, right, span) ==
    [kind |-> "Bin", op |-> op, left |-> left, right |-> right, span |-> span]

UnaryNode(op, arg, span) == [kind |-> "Unary", op |-> op, arg |-> arg, span |-> span]

UpdateNode(op, prefix, arg, span) ==
    [kind |-> "Update", op |-> op, prefix |-> prefix, arg |-> arg, span |-> span]

AwaitNode(arg, span) == [kind |-> "Await", arg |-> arg, span |-> span]

\* What parse_lhs_expr returns for a primary token at `span`.
LhsNode(tok, span) ==
    CASE tok.kind \in {"x", "eval", "await"} ->
            [kind |-> "Ident", sym |-> tok.kind, span |-> span]
      [] tok.kind = "5" -> [kind |-> "Lit", span |-> span]
      [] tok.kind = "obj.prop" -> [kind |-> "Member", span |-> span]
      [] tok.kind = "f()" -> [kind |-> "Call", span |-> span]
      [] tok.kind = "(-2)" ->
            [kind |-> "Paren", expr |-> [kind |-> "Unary"], span |-> span]
      [] tok.kind = "(a + b)" ->
            [kind |-> "Paren", expr |-> [kind |-> "Bin"], span |-> span]
      [] tok.kind = "(x)" ->
            [kind |-> "Paren", expr |-> [kind |-> "Ident", sym |-> "x"], span |-> span]
      [] tok.kind = "() => 1" -> [kind |-> "Arrow", span |-> span]

\* parse_lhs_expr accepts the current token.
IsLhsStart(tok, c) ==
    \/ tok.kind \in PrimaryTokens
    \/ tok.kind = "await" /\ ~c.in_async

\* ExprExt::is_valid_simple_assignment_target(strict)
RECURSIVE IsValidSimpleAssignmentTarget(_, _)
IsValidSimpleAssignmentTarget(e, strict) ==
    CASE e.kind = "Ident" -> ~(strict /\ e.sym \in {"eval", "arguments"})
      [] e.kind = "Member" -> TRUE
      [] e.kind = "Paren" -> IsValidSimpleAssignmentTarget(e.expr, strict)
      [] OTHER -> FALSE

\* The target check made without the strict flag of the context.
IsTargetNonStrict(e, c) == IsValidSimpleAssignmentTarget(e, FALSE)

\* `arg.is_valid_simple_assignment_target(self.ctx().strict)`
IsTarget(e, c) == IsValidSimpleAssignmentTarget(e, c.strict)

(***************************************************************************)
(* Operator model.                                                         *)
(***************************************************************************)
\* BinaryOp::precedence()
Precedence(op) ==
    CASE op \in {"||", "??"} -> 1
      [] op = "&&" -> 2
      [] op = "|" -> 3
      [] op = "^" -> 4
      [] op = "&" -> 5
      [] op \in {"==", "!=", "===", "!=="} -> 6
      [] op \in {"<", "<=", ">", ">=", "in", "instanceof"} -> 7
      [] op \in {"<<", ">>", ">>>"} -> 8
      [] op \in {"+", "-"} -> 9
      [] op \in {"*", "/", "%"} -> 10
      [] op = "**" -> 11

\* The match taking `in` as an operator whatever the context says.
TokenBinOpAlwaysIn(tok, c) ==
    CASE tok.kind \in {"in", "instanceof"} -> tok.kind
      [] tok.kind \in BinOpTokens -> tok.kind
      [] OTHER -> "none"

\* The match on the current token at the head of parse_bin_op_recursively:
\* the binary operator it stands for, or "none".
TokenBinOp(tok, c) ==
    CASE tok.kind = "in" /\ c.include_in_expr -> "in"
      [] tok.kind = "instanceof" -> "instanceof"
      [] tok.kind \in BinOpTokens -> tok.kind
      [] OTHER -> "none"

\* The threshold test with `<` for `<=`.
BelowThresholdStrict(op, min_prec) == Precedence(op) < min_prec

\* `op.precedence() <= min_prec`
BelowThreshold(op, min_prec) == Precedence(op) <= min_prec

\* parse_bin_op_recursively returns `left` without consuming anything.
ReturnsLeft(tok, min_prec, c) ==
    IF tok = EOF \/ TokenBinOp(tok, c) = "none"
    THEN TRUE
    ELSE BelowThreshold(TokenBinOp(tok, c), min_prec)

\* The guard looking at Update nodes instead of Unary nodes.
IsUpdateInExp(left, op) == left.kind = "Update" /\ op = "**"

\* `ExprKind::Unary { .. } if op == op!("**")`
IsUnaryInExp(left, op) == left.kind = "Unary" /\ op = "**"

\* The right operand climbed from threshold 0, whatever the operator.
RightMinPrecZero(op) == 0

\* The right operand climbed from the operator's own precedence, `**` too.
RightMinPrecSame(op) == Precedence(op)

\* The threshold handed to the climb of the right operand.
RightMinPrec(op) == IF op = "**" THEN Precedence(op) - 1 ELSE Precedence(op)

\* `is!("++") || is!("--")`
IsUpdateToken(tok) == tok.kind \in UpdateTokens

\* `is_one_of!("delete", "void", "typeof", '+', '-', '~', '!')`
IsUnaryOpToken(tok) == tok.kind \in UnaryOpTokens

\* `await` taken as a unary operator whatever the context says.
IsAwaitStartAnywhere(tok, c) == tok.kind = "await"

\* `self.ctx().in_async && is!("await")`
IsAwaitStart(tok, c) == c.in_async /\ tok.kind = "await"

\* The line terminator before the current token overlooked.
NoLineBreakBeforeCur(tok) == FALSE

\* `self.input.had_line_break_before_cur()`
HadLineBreakBeforeCur(tok) == tok.nl

\* `return_if_arrow!(expr)`
IsArrow(e) == e.kind = "Arrow"

(***************************************************************************)
(* Call stack.                                                             *)
(***************************************************************************)
Frame(fn, pc, left, min_prec, op, start) ==
    [fn |-> fn, pc |-> pc, left |-> left, min_prec |-> min_prec, op |-> op,
     start |-> start]

BinExprFrame == Frame("parse_bin_expr", "start", None, 0, "none", 0)

BinRecFrame(left, min_prec) ==
    Frame("parse_bin_op_recursively", "start", left, min_prec, "none", 0)

UnaryFrame == Frame("parse_unary_expr", "start", None, 0, "none", 0)

AwaitFrame == Frame("parse_await_expr", "start", None, 0, "none", 0)

Top == stack[Len(stack)]

Rest == SubSeq(stack, 1, Len(stack) - 1)

At(fn, pc) == status = "running" /\ stack # <<>> /\ Top.fn = fn /\ Top.pc = pc

\* The top frame moves on to `f` and calls `callee`.
Call(f, callee) == stack' = Rest \o <<f, callee>>

\* The top frame returns Ok(v).
Return(v) ==
    /\ stack' = Rest
    /\ ret' = v
    /\ status' = IF Len(stack) = 1 THEN "done" ELSE "running"
    /\ err' = err

\* syntax_error!: Err(..) leaves every frame through `?`.
Fail(kind, span) ==
    /\ stack' = <<>>
    /\ ret' = None
    /\ status' = "error"
    /\ err' = [kind |-> kind, span |-> span]

\* bump!(): the current token is consumed and the next one lexed.
Bump ==
    /\ cur # EOF
    /\ consumed' = Append(consumed, cur)
    /\ cur' \in NextTokens(consumed')

NoBump == UNCHANGED <<cur, consumed>>

Init ==
    /\ ctx \in Contexts
    /\ cur \in NextTokens(<<>>)
    /\ consumed = <<>>
    /\ stack = <<BinExprFrame>>
    /\ ret = None
    /\ status = "running"
    /\ err = None

(***************************************************************************)
(* parse_bin_expr                                                          *)
(***************************************************************************)
BinExprStart ==
    /\ At("parse_bin_expr", "start")
    /\ Call([Top EXCEPT !.pc = "left"], UnaryFrame)
    /\ NoBump
    /\ UNCHANGED <<ctx, ret, status, err>>

BinExprReturnArrow ==
    /\ At("parse_bin_expr", "left")
    /\ IsArrow(ret)
    /\ Return(ret)
    /\ NoBump
    /\ UNCHANGED ctx

BinExprClimb ==
    /\ At("parse_bin_expr", "left")
    /\ ~IsArrow(ret)
    /\ Call([Top EXCEPT !.pc = "climbed"], BinRecFrame(ret, 0))
    /\ NoBump
    /\ UNCHANGED <<ctx, ret, status, err>>

BinExprReturn ==
    /\ At("parse_bin_expr", "climbed")
    /\ Return(ret)
    /\ NoBump
    /\ UNCHANGED ctx

(***************************************************************************)
(* parse_bin_op_recursively                                                *)
(***************************************************************************)
\* End of input, no operator, or an operator at or below the threshold.
BinRecReturnLeft ==
    /\ At("parse_bin_op_recursively", "start")
    /\ ReturnsLeft(cur, Top.min_prec, ctx)
    /\ Return(Top.left)
    /\ NoBump
    /\ UNCHANGED ctx

\* The error carries the span of `left` (left_span).
BinRecUnaryInExp ==
    /\ At("parse_bin_op_recursively", "start")
    /\ ~ReturnsLeft(cur, Top.min_prec, ctx)
    /\ IsUnaryInExp(Top.left, TokenBinOp(cur, ctx))
    /\ Bump
    /\ Fail("UnaryInExp", Top.left.span)
    /\ UNCHANGED ctx

BinRecParseRight ==
    /\ At("parse_bin_op_recursively", "start")
    /\ ~ReturnsLeft(cur, Top.min_prec, ctx)
    /\ ~IsUnaryInExp(Top.left, TokenBinOp(cur, ctx))
    /\ Bump
    /\ Call([Top EXCEPT !.pc = "left_of_right", !.op = TokenBinOp(cur, ctx)],
            UnaryFrame)
    /\ UNCHANGED <<ctx, ret, status, err>>

BinRecClimbRight ==
    /\ At("parse_bin_op_recursively", "left_of_right")
    /\ Call([Top EXCEPT !.pc = "right"], BinRecFrame(ret, RightMinPrec(Top.op)))
    /\ NoBump
    /\ UNCHANGED <<ctx, ret, status, err>>

\* The Bin node is built and the climb goes on from it, same threshold.
BinRecBuild ==
    /\ At("parse_bin_op_recursively", "right")
    /\ Call([Top EXCEPT !.pc = "expr"],
            BinRecFrame(BinNode(Top.op, Top.left, ret,
                                SpanFrom(Top.left.span.lo, consumed)),
                        Top.min_prec))
    /\ NoBump
    /\ UNCHANGED <<ctx, ret, status, err>>

BinRecReturn ==
    /\ At("parse_bin_op_recursively", "expr")
    /\ Return(ret)
    /\ NoBump
    /\ UNCHANGED ctx

(***************************************************************************)
(* parse_unary_expr                                                        *)
(***************************************************************************)
UnaryPrefixUpdate ==
    /\ At("parse_unary_expr", "start")
    /\ IsUpdateToken(cur)
    /\ Bump
    /\ Call([Top EXCEPT !.pc = "prefix_arg", !.op = cur.kind,
                        !.start = CurPos(cur, consumed)],
            UnaryFrame)
    /\ UNCHANGED <<ctx, ret, status, err>>

UnaryPrefixUpdateError ==
    /\ At("parse_unary_expr", "prefix_arg")
    /\ ~IsTarget(ret, ctx)
    /\ Fail("NotSimpleAssign", ret.span)
    /\ NoBump
    /\ UNCHANGED ctx

UnaryPrefixUpdateBuild ==
    /\ At("parse_unary_expr", "prefix_arg")
    /\ IsTarget(ret, ctx)
    /\ Return(UpdateNode(Top.op, TRUE, ret, SpanFrom(Top.start, consumed)))
    /\ NoBump
    /\ UNCHANGED ctx

UnaryOp ==
    /\ At("parse_unary_expr", "start")
    /\ ~IsUpdateToken(cur)
    /\ IsUnaryOpToken(cur)
    /\ Bump
    /\ Call([Top EXCEPT !.pc = "unary_arg", !.op = cur.kind,
                        !.start = CurPos(cur, consumed)],
            UnaryFrame)
    /\ UNCHANGED <<ctx, ret, status, err>>

UnaryOpBuild ==
    /\ At("parse_unary_expr", "unary_arg")
    /\ Return(UnaryNode(Top.op, ret, SpanFrom(Top.start, consumed)))
    /\ NoBump
    /\ UNCHANGED ctx

UnaryAwait ==
    /\ At("parse_unary_expr", "start")
    /\ ~IsUpdateToken(cur)
    /\ ~IsUnaryOpToken(cur)
    /\ IsAwaitStart(cur, ctx)
    /\ Call([Top EXCEPT !.pc = "await", !.start = CurPos(cur, consumed)],
            AwaitFrame)
    /\ NoBump
    /\ UNCHANGED <<ctx, ret, status, err>>

UnaryAwaitReturn ==
    /\ At("parse_unary_expr", "await")
    /\ Return(ret)
    /\ NoBump
    /\ UNCHANGED ctx

\* parse_lhs_expr finds no expression at the current token.
UnaryLhsError ==
    /\ At("parse_unary_expr", "start")
    /\ ~IsUpdateToken(cur)
    /\ ~IsUnaryOpToken(cur)
    /\ ~IsAwaitStart(cur, ctx)
    /\ ~IsLhsStart(cur, ctx)
    /\ Fail("Unexpected", CurSpan(cur, consumed))
    /\ NoBump
    /\ UNCHANGED ctx

\* parse_lhs_expr consumes one left-hand-side expression.
UnaryLhs ==
    /\ At("parse_unary_expr", "start")
    /\ ~IsUpdateToken(cur)
    /\ ~IsUnaryOpToken(cur)
    /\ ~IsAwaitStart(cur, ctx)
    /\ IsLhsStart(cur, ctx)
    /\ Bump
    /\ stack' = Rest \o <<[Top EXCEPT !.pc = "expr", !.start = CurPos(cur, consumed)]>>
    /\ ret' = LhsNode(cur, CurSpan(cur, consumed))
    /\ UNCHANGED <<ctx, status, err>>

UnaryReturnArrow ==
    /\ At("parse_unary_expr", "expr")
    /\ IsArrow(ret)
    /\ Return(ret)
    /\ NoBump
    /\ UNCHANGED ctx

UnaryLineBreak ==
    /\ At("parse_unary_expr", "expr")
    /\ ~IsArrow(ret)
    /\ HadLineBreakBeforeCur(cur)
    /\ Return(ret)
    /\ NoBump
    /\ UNCHANGED ctx

UnaryPostfixError ==
    /\ At("parse_unary_expr", "expr")
    /\ ~IsArrow(ret)
    /\ ~HadLineBreakBeforeCur(cur)
    /\ IsUpdateToken(cur)
    /\ ~IsTarget(ret, ctx)
    /\ Fail("NotSimpleAssign", ret.span)
    /\ NoBump
    /\ UNCHANGED ctx

UnaryPostfixUpdate ==
    /\ At("parse_unary_expr", "expr")
    /\ ~IsArrow(ret)
    /\ ~HadLineBreakBeforeCur(cur)
    /\ IsUpdateToken(cur)
    /\ IsTarget(ret, ctx)
    /\ Bump
    /\ stack' = Rest
    /\ ret' = UpdateNode(cur.kind, FALSE, ret, PostfixUpdateSpan(cur, consumed))
    /\ status' = IF Len(stack) = 1 THEN "done" ELSE "running"
    /\ UNCHANGED <<ctx, err>>

UnaryReturnExpr ==
    /\ At("parse_unary_expr", "expr")
    /\ ~IsArrow(ret)
    /\ ~HadLineBreakBeforeCur(cur)
    /\ ~IsUpdateToken(cur)
    /\ Return(ret)
    /\ NoBump
    /\ UNCHANGED ctx

(***************************************************************************)
(* parse_await_expr                                                        *)
(***************************************************************************)
AwaitStar ==
    /\ At("parse_await_expr", "start")
    /\ Bump
    /\ cur'.kind = "*"
    /\ Fail("AwaitStar", CurSpan(cur', consumed'))
    /\ UNCHANGED ctx

AwaitParseArg ==
    /\ At("parse_await_expr", "start")
    /\ Bump
    /\ cur'.kind # "*"
    /\ Call([Top EXCEPT !.pc = "arg", !.start = CurPos(cur, consumed)], UnaryFrame)
    /\ UNCHANGED <<ctx, ret, status, err>>

AwaitBuild ==
    /\ At("parse_await_expr", "arg")
    /\ Return(AwaitNode(ret, SpanFrom(Top.start, consumed)))
    /\ NoBump
    /\ UNCHANGED ctx

Next ==
    \/ BinExprStart
    \/ BinExprReturnArrow
    \/ BinExprClimb
    \/ BinExprReturn
    \/ BinRecReturnLeft
    \/ BinRecUnaryInExp
    \/ BinRecParseRight
    \/ BinRecClimbRight
    \/ BinRecBuild
    \/ BinRecReturn
    \/ UnaryPrefixUpdate
    \/ UnaryPrefixUpdateError
    \/ UnaryPrefixUpdateBuild
    \/ UnaryOp
    \/ UnaryOpBuild
    \/ UnaryAwait
    \/ UnaryAwaitReturn
    \/ UnaryLhsError
    \/ UnaryLhs
    \/ UnaryReturnArrow
    \/ UnaryLineBreak
    \/ UnaryPostfixError
    \/ UnaryPostfixUpdate
    \/ UnaryReturnExpr
    \/ AwaitStar
    \/ AwaitParseArg
    \/ AwaitBuild

Spec == Init /\ [][Next]_vars

(***************************************************************************)
(* Expression trees held by the parser.                                    *)
(***************************************************************************)
Children(e) ==
    CASE e.kind = "Bin" -> {e.left, e.right}
      [] e.kind \in {"Unary", "Update", "Await"} -> {e.arg}
      [] OTHER -> {}

RECURSIVE Nodes(_)
Nodes(e) == {e} \cup UNION {Nodes(ch) : ch \in Children(e)}

\* Every node of every tree the parser holds: the value last returned and
\* the left operands kept by the active calls.
AllNodes ==
    UNION {Nodes(t) : t \in {ret} \cup {stack[i].left : i \in 1..Len(stack)}}

\* A tree without its spans (assert_eq_ignore_span!).
RECURSIVE Shape(_)
Shape(e) ==
    CASE e.kind = "Bin" ->
            [kind |-> "Bin", op |-> e.op, left |-> Shape(e.left), right |-> Shape(e.right)]
      [] e.kind = "Unary" -> [kind |-> "Unary", op |-> e.op, arg |-> Shape(e.arg)]
      [] e.kind = "Update" ->
            [kind |-> "Update", op |-> e.op, prefix |-> e.prefix, arg |-> Shape(e.arg)]
      [] e.kind = "Await" -> [kind |-> "Await", arg |-> Shape(e.arg)]
      [] OTHER -> [f \in DOMAIN e \ {"span"} |-> e[f]]

\* The operand parse_lhs_expr makes of the i-th token consumed.
Leaf(i) == Shape(LhsNode(consumed[i], Span(0, 0)))

BinShape(op, l, r) == [kind |-> "Bin", op |-> op, left |-> l, right |-> r]

\* The input is `a OP1 b OP2 c`: these tokens consumed, end of input next.
IsChain3 ==
    /\ cur = EOF
    /\ Len(consumed) = 5
    /\ \A i \in {1, 3, 5} : IsLhsStart(consumed[i], ctx)
    /\ \A i \in {2, 4} : TokenBinOp(consumed[i], ctx) # "none"

Op1 == TokenBinOp(consumed[2], ctx)

Op2 == TokenBinOp(consumed[4], ctx)

LeftNested == BinShape(Op2, BinShape(Op1, Leaf(1), Leaf(3)), Leaf(5))

RightNested == BinShape(Op1, Leaf(1), BinShape(Op2, Leaf(3), Leaf(5)))

(***************************************************************************)
(* Precedence and associativity.                                           *)
(***************************************************************************)
\* C1: an input `a OP1 b OP2 c` with operators of different precedence is
\* parsed without error, and its tree nests the tighter-binding operator
\* under the looser one: a OP1 (b OP2 c) when OP2 binds tighter,
\* (a OP1 b) OP2 c when OP1 binds tighter.
C1_Precedence ==
    (IsChain3 /\ Precedence(Op1) # Precedence(Op2)) =>
        /\ status # "error"
        /\ status = "done" =>
              Shape(ret) = IF Precedence(Op2) > Precedence(Op1)
                           THEN RightNested
                           ELSE LeftNested

\* `x + x * x` and `x * x + x` have been parsed.
C1_Witness ==
    /\ status = "done"
    /\ IsChain3
    /\ \/ Op1 = "+" /\ Op2 = "*" /\ Shape(ret) = RightNested
       \/ Op1 = "**" /\ Op2 = "in" /\ Shape(ret) = LeftNested

\* C2: a chain `a OP1 b OP2 c` of left-associative operators of one
\* precedence is parsed as (a OP1 b) OP2 c, and no Bin node of an operator
\* other than `**` has a Bin node of the same precedence as right operand.
C2_LeftAssoc ==
    /\ (IsChain3 /\ Precedence(Op1) = Precedence(Op2) /\ Op1 # "**" /\ Op2 # "**") =>
          /\ status # "error"
          /\ status = "done" => Shape(ret) = LeftNested
    /\ \A n \in AllNodes :
          (n.kind = "Bin" /\ n.op # "**" /\ n.right.kind = "Bin") =>
              Precedence(n.right.op) # Precedence(n.op)

\* `x + x - x` has been parsed.
C2_Witness ==
    /\ status = "done"
    /\ IsChain3
    /\ Op1 = "+"
    /\ Op2 = "-"
    /\ Shape(ret) = LeftNested

\* The input is `a ** b ** c ** d`.
IsExpChain4 ==
    /\ cur = EOF
    /\ Len(consumed) = 7
    /\ \A i \in {1, 3, 5, 7} : IsLhsStart(consumed[i], ctx)
    /\ \A i \in {2, 4, 6} : consumed[i].kind = "**"

\* C3: a chain `a ** b ** c` is parsed as a ** (b ** c), a chain
\* `a ** b ** c ** d` as a ** (b ** (c ** d)), and no `**` Bin node has a
\* `**` Bin node as left operand.
C3_RightAssocExp ==
    /\ (IsChain3 /\ Op1 = "**" /\ Op2 = "**") =>
          /\ status # "error"
          /\ status = "done" => Shape(ret) = RightNested
    /\ IsExpChain4 =>
          /\ status # "error"
          /\ status = "done" =>
                Shape(ret) = BinShape("**", Leaf(1),
                                BinShape("**", Leaf(3), BinShape("**", Leaf(5), Leaf(7))))
    /\ \A n \in AllNodes :
          (n.kind = "Bin" /\ n.op = "**") => ~(n.left.kind = "Bin" /\ n.left.op = "**")

\* `x ** x ** x ** x` has been parsed.
C3_Witness ==
    /\ status = "done"
    /\ IsExpChain4
    /\ ret.right.right.kind = "Bin"

(***************************************************************************)
(* Early errors.                                                           *)
(***************************************************************************)
\* C4: when parse_bin_op_recursively holds a Unary node as left operand and
\* the current token is `**`, the parse fails with UnaryInExp carrying the
\* span of that operand, and no `**` Bin node ever has a Unary node as left
\* operand; with a parenthesized unary expression as left operand the `**`
\* is taken, and `(-2) ** x` yields a `**` Bin node.
C4_ExpGuard ==
    /\ [](\A n \in AllNodes : (n.kind = "Bin" /\ n.op = "**") => n.left.kind # "Unary")
    /\ []((cur = EOF /\ Len(consumed) = 3 /\ consumed[1].kind = "(-2)"
              /\ consumed[2].kind = "**" /\ IsLhsStart(consumed[3], ctx)) =>
            /\ status # "error"
            /\ status = "done" =>
                  Shape(ret) = BinShape("**", [kind |-> "Paren", expr |-> [kind |-> "Unary"]],
                                        Leaf(3)))
    /\ [][(At("parse_bin_op_recursively", "start") /\ cur.kind = "**") =>
            /\ Top.left.kind = "Unary" =>
                  /\ status' = "error"
                  /\ err' = [kind |-> "UnaryInExp", span |-> Top.left.span]
            /\ Top.left.kind = "Paren" =>
                  /\ status' = "running"
                  /\ consumed' = Append(consumed, cur)]_vars

\* `x + -x ** ...` has failed on the Unary right operand of `+`.
C4_Witness ==
    /\ status = "error"
    /\ err = [kind |-> "UnaryInExp", span |-> Span(4, 7)]
    /\ Len(consumed) = 5
    /\ consumed[2].kind = "+"
    /\ consumed[3].kind = "-"
    /\ consumed[5].kind = "**"

\* Identifiers that strict mode does not accept as assignment targets.
StrictForbidden == {"eval", "arguments"}

\* Operands the claim counts as no simple assignment target.
NotATarget(e) ==
    \/ e.kind \in {"Lit", "Call", "Update", "Unary", "Bin", "Await"}
    \/ e.kind = "Paren" /\ e.expr.kind \in {"Bin", "Unary"}

\* A prefix update is about to check the operand in `ret`.
AtPrefixCheck == At("parse_unary_expr", "prefix_arg")

\* A postfix update is about to check the operand in `ret`.
AtPostfixCheck ==
    /\ At("parse_unary_expr", "expr")
    /\ ~IsArrow(ret)
    /\ ~cur.nl
    /\ cur.kind \in UpdateTokens

FailsNotSimpleAssign ==
    /\ status' = "error"
    /\ err' = [kind |-> "NotSimpleAssign", span |-> ret.span]

YieldsUpdate(prefix, op) ==
    /\ status' # "error"
    /\ ret'.kind = "Update"
    /\ ret'.prefix = prefix
    /\ ret'.op = op
    /\ ret'.arg = ret

\* C5 as stated: an update of a literal, a call, a parenthesized binary
\* expression or another update fails with NotSimpleAssign at the operand,
\* and an update of any identifier or member access yields an Update node.
C5_AsStated ==
    [][/\ AtPrefixCheck =>
            /\ NotATarget(ret) => FailsNotSimpleAssign
            /\ ret.kind \in {"Ident", "Member"} => YieldsUpdate(TRUE, Top.op)
       /\ AtPostfixCheck =>
            /\ NotATarget(ret) => FailsNotSimpleAssign
            /\ ret.kind \in {"Ident", "Member"} => YieldsUpdate(FALSE, cur.kind)]_vars

\* The operand is one strict mode forbids as a target, in strict mode.
ForbiddenHere(e) == e.kind = "Ident" /\ ctx.strict /\ e.sym \in StrictForbidden

\* C5, amended: as C5, with the identifiers strict mode forbids as targets
\* counted, in strict mode, among the invalid operands; and no Update node
\* ever holds an invalid operand.
C5_TargetValidity ==
    /\ [](\A n \in AllNodes :
            n.kind = "Update" => ~NotATarget(n.arg) /\ ~ForbiddenHere(n.arg))
    /\ [][AtPrefixCheck =>
            /\ (NotATarget(ret) \/ ForbiddenHere(ret)) => FailsNotSimpleAssign
            /\ (ret.kind \in {"Ident", "Member"} /\ ~ForbiddenHere(ret)) =>
                    YieldsUpdate(TRUE, Top.op)]_vars
    /\ [][AtPostfixCheck =>
            /\ (NotATarget(ret) \/ ForbiddenHere(ret)) => FailsNotSimpleAssign
            /\ (ret.kind \in {"Ident", "Member"} /\ ~ForbiddenHere(ret)) =>
                    YieldsUpdate(FALSE, cur.kind)]_vars

\* `eval++` has failed in strict mode.
C5_Witness ==
    /\ ctx.strict
    /\ status = "error"
    /\ err = [kind |-> "NotSimpleAssign", span |-> Span(0, 1)]
    /\ Len(consumed) = 1
    /\ consumed[1].kind = "eval"
    /\ cur = Tok("++")

(***************************************************************************)
(* Automatic semicolon insertion, `in`, `await`.                           *)
(***************************************************************************)
\* The token consumed right after the operand of a postfix update.
PostfixOperatorToken(n) == consumed[(n.arg.span.hi + 1) \div 2 + 1]

\* C6: with a line terminator before a `++` or `--` that follows the
\* left-hand-side expression, parse_unary_expr returns that expression alone,
\* the operator stays the current token, no error is raised, and no postfix
\* Update node is ever built over an operator that a line terminator precedes.
C6_AsiBoundary ==
    /\ [](\A n \in AllNodes :
            (n.kind = "Update" /\ ~n.prefix) => ~PostfixOperatorToken(n).nl)
    /\ [][(At("parse_unary_expr", "expr") /\ cur.nl /\ cur.kind \in UpdateTokens) =>
            /\ ret' = ret
            /\ stack' = Rest
            /\ status' # "error"
            /\ cur' = cur
            /\ consumed' = consumed]_vars

\* `5` newline `++` has been parsed as `5`, the `++` left in place.
C6_Witness ==
    /\ status = "done"
    /\ ret = [kind |-> "Lit", span |-> Span(0, 1)]
    /\ Len(consumed) = 1
    /\ cur = TokNl("++")

\* C7: with include_in_expr = false no `in` token is ever consumed and no
\* `in` Bin node built: `x in ..` returns `x` and `a + x in ..` returns
\* `a + x`, the `in` left as current token; with include_in_expr = true
\* `x in y` is parsed as one Bin node with operator `in`.
C7_ContextGatedIn ==
    /\ ~ctx.include_in_expr =>
          /\ \A i \in 1..Len(consumed) : consumed[i].kind # "in"
          /\ \A n \in AllNodes : n.kind = "Bin" => n.op # "in"
          /\ (cur.kind = "in" /\ Len(consumed) = 1 /\ IsLhsStart(consumed[1], ctx)) =>
                /\ status # "error"
                /\ status = "done" => Shape(ret) = Leaf(1)
          /\ (cur.kind = "in" /\ Len(consumed) = 3 /\ IsLhsStart(consumed[1], ctx)
                /\ consumed[2].kind = "+" /\ IsLhsStart(consumed[3], ctx)) =>
                /\ status # "error"
                /\ status = "done" => Shape(ret) = BinShape("+", Leaf(1), Leaf(3))
    /\ (ctx.include_in_expr /\ cur = EOF /\ Len(consumed) = 3
          /\ IsLhsStart(consumed[1], ctx) /\ consumed[2].kind = "in"
          /\ IsLhsStart(consumed[3], ctx)) =>
          /\ status # "error"
          /\ status = "done" => Shape(ret) = BinShape("in", Leaf(1), Leaf(3))

\* `x + x in ..` has been parsed as `x + x` with include_in_expr = false.
C7_Witness ==
    /\ ~ctx.include_in_expr
    /\ status = "done"
    /\ cur.kind = "in"
    /\ Len(consumed) = 3
    /\ IsLhsStart(consumed[1], ctx)
    /\ consumed[2].kind = "+"
    /\ Shape(ret) = BinShape("+", Leaf(1), Leaf(3))

\* C8: with in_async = false no call of parse_await_expr is made and no
\* Await node built, a consumed `await` being an operand parse_lhs_expr made;
\* with in_async = true `await x` is an Await node, and an `await` followed
\* by `*` fails with AwaitStar while `await` is the last token consumed.
C8_AwaitGating ==
    /\ ~ctx.in_async =>
          /\ \A n \in AllNodes : n.kind # "Await"
          /\ \A i \in 1..Len(stack) : stack[i].fn # "parse_await_expr"
          /\ (status = "done" /\ Len(consumed) = 1 /\ consumed[1].kind = "await") =>
                ret = [kind |-> "Ident", sym |-> "await", span |-> Span(0, 1)]
    /\ ctx.in_async =>
          /\ (status = "done" /\ Len(consumed) = 2 /\ consumed[1].kind = "await"
                /\ IsLhsStart(consumed[2], ctx)) =>
                ret = AwaitNode(LhsNode(consumed[2], Span(2, 3)), Span(0, 3))
          /\ (consumed # <<>> /\ consumed[Len(consumed)].kind = "await"
                /\ cur.kind = "*") =>
                /\ status = "error"
                /\ err.kind = "AwaitStar"

\* `await *` has failed with in_async = true.
C8_Witness ==
    /\ ctx.in_async
    /\ status = "error"
    /\ err.kind = "AwaitStar"
    /\ Len(consumed) = 1
    /\ consumed[1].kind = "await"
    /\ cur.kind = "*"

(***************************************************************************)
(* Spans.                                                                  *)
(***************************************************************************)
Within(inner, outer) == outer.lo <= inner.lo /\ inner.hi <= outer.hi

\* C9: the span of every Unary, Update, Bin and Await node contains the span
\* of each of its children; a postfix Update node starts where its operand
\* starts, and a Bin node runs from its left operand's start to its right
\* operand's end.
C9_SpanContainment ==
    \A n \in AllNodes :
        /\ \A ch \in Children(n) : Within(ch.span, n.span)
        /\ (n.kind = "Update" /\ ~n.prefix) => n.span.lo = n.arg.span.lo
        /\ n.kind = "Bin" => n.span = Span(n.left.span.lo, n.right.span.hi)

(***************************************************************************)
(* The threshold of the climb.                                             *)
(***************************************************************************)
\* The token is a binary operator in the context.
Eligible(tok) ==
    \/ tok.kind \in BinOpTokens \cup {"instanceof"}
    \/ tok.kind = "in" /\ ctx.include_in_expr

\* A climb with threshold m stops at the token.
StopsAt(tok, m) ==
    \/ tok = EOF
    \/ ~Eligible(tok)
    \/ Eligible(tok) /\ Precedence(tok.kind) <= m

InClimb(i) == stack[i].fn = "parse_bin_op_recursively"

\* C10: a call parse_bin_op_recursively(left, min_prec) returns only at end
\* of input, at a token that is no binary operator in the context, or at an
\* operator of precedence <= min_prec, and leaves that token unconsumed; when
\* the first token it inspects is such a token it returns `left` with the
\* token stream as it was; and every operator consumed while the call is
\* active has a precedence > min_prec.
C10_ThresholdStop ==
    /\ [](At("parse_bin_op_recursively", "expr") => StopsAt(cur, Top.min_prec))
    /\ [](\A i \in 1..Len(stack) : \A j \in i..Len(stack) :
            (InClimb(i) /\ InClimb(j) /\ stack[j].op # "none") =>
                Precedence(stack[j].op) > stack[i].min_prec)
    /\ [][(At("parse_bin_op_recursively", "start") /\ StopsAt(cur, Top.min_prec)) =>
            /\ ret' = Top.left
            /\ stack' = Rest
            /\ status' # "error"
            /\ cur' = cur
            /\ consumed' = consumed]_vars
    /\ [][(status = "running" /\ stack # <<>> /\ InClimb(Len(stack))
            /\ status' # "error" /\ stack' = Rest) =>
            /\ StopsAt(cur', Top.min_prec)
            /\ cur' = cur
            /\ consumed' = consumed]_vars

\* In `x * x + ..` the climb of the right operand of `*` has returned the
\* operand itself at the `+`, which is still the current token.
C10_Witness ==
    /\ At("parse_bin_op_recursively", "right")
    /\ Top.op = "*"
    /\ cur.kind = "+"
    /\ Len(consumed) = 3
    /\ ret = LhsNode(consumed[3], Span(4, 5))

TypeOK ==
    /\ ctx \in Contexts
    /\ status \in {"running", "done", "error"}
    /\ Len(consumed) <= MaxChainTokens
====
